---- MODULE Spec2Model ----
(***************************************************************************)
(* Model of search_products (src/search_products.py): the deterministic    *)
(* code lookup, the embedding call, the four channel queries issued on one *)
(* psycopg2 connection/cursor, and the fusion step (aggregation, per       *)
(* channel max normalisation, weight rebalancing, weighted sum, stable     *)
(* sort, keyword gate, truncation).                                        *)
(*                                                                         *)
(* Numbers.  Python floats are modelled as exact rationals.  Caller        *)
(* weights are integers in units of 1/WeightUnit (alpha = 5 is 0.5).  A    *)
(* vector distance is an integer in units of 1/DistUnit.  Values that the  *)
(* code passes through round(x, 4) are integers in units of 1/Scale4, and  *)
(* the weights of the returned dict, round(w, 2), in units of 1/Scale2.    *)
(* round() is modelled as round-half-to-even on the exact rational.        *)
(***************************************************************************)
EXTENDS Integers, Sequences, FiniteSets, TLC

\* ------------------------------------------------------------------ bounds
NumSkus == 2
MaxRows == 2
MaxK == 2

\* ------------------------------------------------------- program constants
WeightUnit == 10
DistUnit == 10
Scale4 == 10000
Scale2 == 100
EMB_DIM == 1536

\* ------------------------------------------------------------ input domains
SKUs == 1..NumSkus
\* k: none, one, and as many as the bound allows.
KValues == {0, 1, MaxK}

\* alpha, beta, gamma, delta in tenths: the defaults, a zero alpha and a
\* negative alpha (the signature accepts any float).
DefaultWeights == [vec |-> 5, ft |-> 3, trgm |-> 1, kw |-> 1]

WeightChoices ==
    { DefaultWeights,
      [vec |-> 0, ft |-> 3, trgm |-> 1, kw |-> 1],
      [vec |-> -5, ft |-> 3, trgm |-> 1, kw |-> 1] }

Channels == <<"vec", "ft", "trgm", "kw">>

\* The raw column of a row, per channel: dist (cosine distance, tenths),
\* score_ft, score_trgm (tenths), score_kw (0..3 by the SQL CASE sum).
\* The vector and keyword channels carry the variety of scores; every
\* channel is normalised and fused by the same code.
RawValues(key) ==
    CASE key = "vec" -> {1, 4, 12}
      [] key = "ft" -> {2}
      [] key = "trgm" -> {5}
      [] key = "kw" -> {0, 3}

ChannelRow(key) == [sku : SKUs, raw : RawValues(key)]

\* The name and codigo_barras columns of the i-th row of a channel: every
\* row spells them its own way, which shows which row a candidate's name
\* and barcode were copied from.
Labelled(key, f) ==
    [i \in DOMAIN f |->
        [sku |-> f[i].sku, raw |-> f[i].raw, name |-> <<key, i>>, codigo_barras |-> <<key, i>>]]

\* The trigram and keyword statements select FROM rag.products, where sku
\* is unique, ORDER BY score DESC.  rag.search_vec and rag.search_ft are
\* functions of the database: the first returns the nearest neighbours in
\* order of distance, and either may return a SKU more than once.
RowOrder(key, f) ==
    /\ key \in {"trgm", "kw"} =>
          \A i, j \in DOMAIN f : i < j => (f[i].raw >= f[j].raw /\ f[i].sku # f[j].sku)
    /\ key = "vec" => \A i, j \in DOMAIN f : i < j => f[i].raw <= f[j].raw

RowLists(key, n) ==
    UNION { { Labelled(key, f) : f \in { g \in [1..m -> ChannelRow(key)] : RowOrder(key, g) } }
            : m \in 0..n }

\* Lengths of the vector the embedding collaborator may return: the
\* configured dimension or one short of it.
EmbLengths == {EMB_DIM, EMB_DIM - 1}

\* rag.find_by_code rows: zero, one or two exact hits.
DetRow(s) == [sku |-> s, codigo_barras |-> 7890 + s, name |-> s, reason |-> "sku"]

DetChoices == { <<>>, <<DetRow(1)>>, <<DetRow(1), DetRow(2)>> }

\* ---------------------------------------------------------------- helpers
Max(a, b) == IF a >= b THEN a ELSE b

Min(a, b) == IF a <= b THEN a ELSE b

\* round(n/d, digits) with scale = 10^digits, d > 0: nearest multiple of
\* 1/scale, ties to the even one.
Round(n, d, scale) ==
    LET s == n * scale
        q == s \div d
        r == s % d
    IN  IF 2 * r < d THEN q
        ELSE IF 2 * r > d THEN q + 1
        ELSE IF q % 2 = 0 THEN q ELSE q + 1

\* Mutant of Slice: the list is returned untruncated.
SliceNone(seq, k) == seq

\* results[:k]
Slice(seq, k) ==
    LET n == IF k >= 0 THEN Min(k, Len(seq)) ELSE Max(0, Len(seq) + k)
    IN  SubSeq(seq, 1, n)

\* Mutant of VecVal: the similarity is not clamped at 0.
VecValNoClamp(r) == DistUnit - r.raw

\* ------------------------------------------------- fusion (lines 139-195)
\* The val_fn lambdas of the four put() calls.
VecVal(r) == Max(0, DistUnit - r.raw)

FtVal(r) == r.raw

\* r["score_trgm"] or 0.0: a falsy column value becomes 0.0.
TrgmVal(r) == IF r.raw = 0 THEN 0 ELSE r.raw

KwVal(r) == r.raw

Val(key, r) ==
    CASE key = "vec" -> VecVal(r)
      [] key = "ft" -> FtVal(r)
      [] key = "trgm" -> TrgmVal(r)
      [] key = "kw" -> KwVal(r)

\* it["scores"].get(key, 0.0)
Get(scores, key) == IF key \in DOMAIN scores THEN scores[key] ELSE 0

\* Mutant of PutRow: every row adds a candidate, an existing one for the
\* SKU is not reused.
PutRowAppend(items, r, key) ==
    Append(items, [sku |-> r.sku, name |-> r.name, codigo_barras |-> r.codigo_barras,
                   scores |-> [c \in {key} |-> Val(key, r)]])

\* One iteration of put(): items.setdefault(sku, {...}), then
\* it["scores"][key] = val.  items is the dict in insertion order.
PutRow(items, r, key) ==
    LET hit == { i \in 1..Len(items) : items[i].sku = r.sku }
        set(sc) == [c \in DOMAIN sc \cup {key} |-> IF c = key THEN Val(key, r) ELSE sc[c]]
    IN  IF hit = {}
        THEN Append(items, [sku |-> r.sku, name |-> r.name,
                            codigo_barras |-> r.codigo_barras, scores |-> set(<<>>)])
        ELSE [i \in 1..Len(items) |->
                 IF i \in hit
                 THEN [items[i] EXCEPT !.scores = set(items[i].scores)]
                 ELSE items[i]]

RECURSIVE Put(_, _, _)
Put(items, rows, key) ==
    IF rows = <<>> THEN items
    ELSE Put(PutRow(items, Head(rows), key), Tail(rows), key)

Aggregate(vecRows, ftRows, trgmRows, kwRows) ==
    Put(Put(Put(Put(<<>>, vecRows, "vec"), ftRows, "ft"), trgmRows, "trgm"), kwRows, "kw")

\* Mutant of ChannelMax: the max of no candidates defaults to 1.
ChannelMaxDefaultOne(items, key) ==
    IF items = <<>> THEN 1
    ELSE LET vals == { Get(items[i].scores, key) : i \in 1..Len(items) }
         IN  CHOOSE m \in vals : \A v \in vals : v <= m

\* max((it["scores"].get(key, 0.0) for it in items.values()), default=0.0)
ChannelMax(items, key) ==
    IF items = <<>> THEN 0
    ELSE LET vals == { Get(items[i].scores, key) : i \in 1..Len(items) }
         IN  CHOOSE m \in vals : \A v \in vals : v <= m

Maxes(items) == [c \in {"vec", "ft", "trgm", "kw"} |-> ChannelMax(items, c)]

\* Mutant of Rebalance: the weight of an empty channel is left as supplied.
RebalanceKeepEmpty(w, mx) ==
    LET total == (IF mx["vec"] > 0 THEN w["vec"] ELSE 0) + (IF mx["ft"] > 0 THEN w["ft"] ELSE 0)
                 + (IF mx["trgm"] > 0 THEN w["trgm"] ELSE 0) + (IF mx["kw"] > 0 THEN w["kw"] ELSE 0)
    IN  [num |-> w, den |-> IF total > 0 THEN total ELSE WeightUnit]

\* Lines 160-171.  The rebalanced weight of channel c is num[c]/den.
Rebalance(w, mx) ==
    LET num == [c \in DOMAIN w |-> IF mx[c] > 0 THEN w[c] ELSE 0]
        total == num["vec"] + num["ft"] + num["trgm"] + num["kw"]
    IN  [num |-> num, den |-> IF total > 0 THEN total ELSE WeightUnit]

\* (raw / max) if max > 0 else 0.0, as the rational n/d.
NormNum(it, mx, c) == IF mx[c] > 0 THEN Get(it.scores, c) ELSE 0

NormDen(mx, c) == IF mx[c] > 0 THEN mx[c] ELSE 1

\* round(raw / max, 4)
Normalized(it, mx, c) == Round(NormNum(it, mx, c), NormDen(mx, c), Scale4)

\* Mutant of FusedScore: the keyword term is left out of the sum.
FusedScoreNoKw(it, mx, rw) ==
    LET dv == NormDen(mx, "vec")
        df == NormDen(mx, "ft")
        dt == NormDen(mx, "trgm")
        n  == rw.num["vec"] * NormNum(it, mx, "vec") * df * dt
              + rw.num["ft"] * NormNum(it, mx, "ft") * dv * dt
              + rw.num["trgm"] * NormNum(it, mx, "trgm") * dv * df
    IN  Round(n, rw.den * dv * df * dt, Scale4)

\* round(w_vec * vn + w_ft * fn + w_tr * tn + w_kw * kn, 4)
FusedScore(it, mx, rw) ==
    LET dv == NormDen(mx, "vec")
        df == NormDen(mx, "ft")
        dt == NormDen(mx, "trgm")
        dk == NormDen(mx, "kw")
        n  == rw.num["vec"] * NormNum(it, mx, "vec") * df * dt * dk
              + rw.num["ft"] * NormNum(it, mx, "ft") * dv * dt * dk
              + rw.num["trgm"] * NormNum(it, mx, "trgm") * dv * df * dk
              + rw.num["kw"] * NormNum(it, mx, "kw") * dv * df * dt
    IN  Round(n, rw.den * dv * df * dt * dk, Scale4)

Entry(it, mx, rw) ==
    [sku |-> it.sku,
     name |-> it.name,
     codigo_barras |-> it.codigo_barras,
     score |-> FusedScore(it, mx, rw),
     vec |-> Normalized(it, mx, "vec"),
     ft |-> Normalized(it, mx, "ft"),
     trgm |-> Normalized(it, mx, "trgm"),
     kw |-> Normalized(it, mx, "kw")]

\* Mutant of InsertDesc: no sorting, insertion order is kept.
InsertLast(sorted, e) == Append(sorted, e)

\* results.sort(key=lambda x: x["score"], reverse=True): a stable sort,
\* entries of equal score keep the order they had.
InsertDesc(sorted, e) ==
    LET before == { i \in 1..Len(sorted) : sorted[i].score >= e.score }
        n == Cardinality(before)
    IN  SubSeq(sorted, 1, n) \o <<e>> \o SubSeq(sorted, n + 1, Len(sorted))

RECURSIVE SortDesc(_)
SortDesc(seq) ==
    IF seq = <<>> THEN <<>>
    ELSE InsertDesc(SortDesc(SubSeq(seq, 1, Len(seq) - 1)), seq[Len(seq)])

HasKw(r) == r.kw > 0

\* Mutant of KwGate: the keyword filter is not applied.
KwGateOff(results, require_kw) == results

\* Mutant of KwGate: filters whenever the flag is set, with no fallback to
\* the unfiltered list.
KwGateStrict(results, require_kw) ==
    IF require_kw THEN SelectSeq(results, HasKw) ELSE results

\* Lines 187-188.
KwGate(results, require_kw) ==
    IF require_kw /\ \E i \in 1..Len(results) : HasKw(results[i])
    THEN LET kept == SelectSeq(results, HasKw)
         IN  IF kept # <<>> THEN kept ELSE results
    ELSE results

Ranked(items, mx, rw, require_kw) ==
    KwGate(SortDesc([i \in 1..Len(items) |-> Entry(items[i], mx, rw)]), require_kw)

\* Mutant of Confidence: the score of the last entry.
ConfidenceLast(results) == IF results # <<>> THEN results[Len(results)].score ELSE 0

\* confidence = results[0]["score"] if results else 0.0
Confidence(results) == IF results # <<>> THEN results[1].score ELSE 0

\* Mutant of MethodTag: every fused result is tagged hybrid.
MethodTagHybrid(det) == "hybrid"

MethodTag(det) == IF det = <<>> THEN "hybrid" ELSE "hybrid_with_deterministic_candidates"

\* The dict returned at lines 190-195, from the rebalanced weights and the
\* ranked list.
HybridResult(a, d, w, results) ==
    [method |-> MethodTag(d),
     confidence |-> Round(Confidence(results), Scale4, Scale4),
     weights |-> [c \in DOMAIN w.num |-> Round(w.num[c], w.den, Scale2)],
     results |-> Slice(results, a.k)]

\* Mutant of DeterministicResult: the entry carries no score of 1.0.
DeterministicResultUnscored(det) ==
    [method |-> "deterministic",
     confidence |-> Scale4,
     results |-> << [sku |-> det[1].sku, codigo_barras |-> det[1].codigo_barras,
                     name |-> det[1].name, reason |-> det[1].reason,
                     score |-> 0] >>]

\* The dict returned at lines 54-61; score and confidence 1.0.
DeterministicResult(det) ==
    [method |-> "deterministic",
     confidence |-> Scale4,
     results |-> << [sku |-> det[1].sku, codigo_barras |-> det[1].codigo_barras,
                     name |-> det[1].name, reason |-> det[1].reason,
                     score |-> Scale4] >>]

\* ------------------------------------------------------------------ state
VARIABLES
    pc,         \* position in search_products
    args,       \* k, weights (alpha, beta, gamma, delta), require_kw_when_available
    conn,       \* the psycopg2 connection: "none" or "open" (no statement closes it)
    tx,         \* its transaction: "none", "active" or "aborted"
    calls,      \* collaborator calls issued so far, in order
    det,        \* rows of rag.find_by_code
    emb_len,    \* length of the vector the embedding collaborator returned, 0 before
    vec_rows, ft_rows, trgm_rows, kw_rows,
    failed,     \* channels whose query raised
    cascaded,   \* statements refused because an earlier failure aborted the transaction
    items, mx, rw, ranked,   \* locals of the fusion step
    ret,        \* the returned dict
    exc         \* the exception that left search_products

vars == <<pc, args, conn, tx, calls, det, emb_len, vec_rows, ft_rows, trgm_rows, kw_rows,
          failed, cascaded, items, mx, rw, ranked, ret, exc>>

NoRet == [method |-> "none", confidence |-> 0, results |-> <<>>]

ZeroByChannel == [c \in {"vec", "ft", "trgm", "kw"} |-> 0]

Init ==
    /\ pc = "idle"
    /\ args = [k |-> 8, weights |-> DefaultWeights, require_kw |-> TRUE]
    /\ conn = "none"
    /\ tx = "none"
    /\ calls = <<>>
    /\ det = <<>>
    /\ emb_len = 0
    /\ vec_rows = <<>>
    /\ ft_rows = <<>>
    /\ trgm_rows = <<>>
    /\ kw_rows = <<>>
    /\ failed = {}
    /\ cascaded = {}
    /\ items = <<>>
    /\ mx = ZeroByChannel
    /\ rw = [num |-> ZeroByChannel, den |-> WeightUnit]
    /\ ranked = <<>>
    /\ ret = NoRet
    /\ exc = "none"

\* Rows still allowed by the bound on the rows of one call.
Budget == MaxRows - (Len(vec_rows) + Len(ft_rows) + Len(trgm_rows) + Len(kw_rows))

fusionLocals == <<items, mx, rw, ranked>>

channelRows == <<vec_rows, ft_rows, trgm_rows, kw_rows>>

\* An exception leaves the with block: the connection context manager rolls
\* the transaction back; it does not close the connection.
Raise(e) ==
    /\ pc' = "raised"
    /\ exc' = e
    /\ tx' = "none"
    /\ UNCHANGED <<conn, ret>>

\* Lines 33-48: the call and psycopg2.connect().
Call ==
    /\ pc = "idle"
    /\ \E k \in KValues, w \in WeightChoices, rk \in BOOLEAN :
          args' = [k |-> k, weights |-> w, require_kw |-> rk]
    /\ conn' = "open"
    /\ pc' = "find_by_code"
    /\ UNCHANGED <<tx, calls, det, emb_len, channelRows, failed, cascaded, fusionLocals, ret, exc>>

\* Mutant of FindByCode: a single exact hit does not return early.
FindByCodeNoReturn ==
    /\ pc = "find_by_code"
    /\ calls' = Append(calls, "find_by_code")
    /\ \/ /\ Raise("find_by_code")
          /\ UNCHANGED det
       \/ \E d \in DetChoices :
            /\ det' = d
            /\ pc' = "embed"
            /\ tx' = "active"
            /\ UNCHANGED <<conn, ret, exc>>
    /\ UNCHANGED <<args, emb_len, channelRows, failed, cascaded, fusionLocals>>

\* Lines 50-61: the deterministic lookup and its early return.
FindByCode ==
    /\ pc = "find_by_code"
    /\ calls' = Append(calls, "find_by_code")
    /\ \/ /\ Raise("find_by_code")
          /\ UNCHANGED det
       \/ \E d \in DetChoices :
            /\ det' = d
            /\ exc' = exc
            /\ conn' = conn
            /\ IF Len(d) = 1
               THEN /\ ret' = DeterministicResult(d)
                    /\ pc' = "done"
                    /\ tx' = "none"
               ELSE /\ ret' = ret
                    /\ pc' = "embed"
                    /\ tx' = "active"
    /\ UNCHANGED <<args, emb_len, channelRows, failed, cascaded, fusionLocals>>

\* Mutant of DimMismatch: the length of the embedding is not checked.
DimMismatchIgnored(n) == FALSE

\* Line 29: len(v) != EMB_DIM
DimMismatch(n) == n # EMB_DIM

\* Line 64 and embed_query (lines 26-31): the collaborator fails, or returns
\* a vector whose length is checked against EMB_DIM.
EmbedQuery ==
    /\ pc = "embed"
    /\ calls' = Append(calls, "embed")
    /\ \/ /\ Raise("embedding_api")
          /\ UNCHANGED emb_len
       \/ \E n \in EmbLengths :
            /\ emb_len' = n
            /\ IF DimMismatch(n)
               THEN Raise("embedding_dim")
               ELSE /\ pc' = "search_vec"
                    /\ UNCHANGED <<conn, tx, ret, exc>>
    /\ UNCHANGED <<args, det, channelRows, failed, cascaded, fusionLocals>>

\* Lines 66-68: not guarded, a failure propagates.
SearchVec ==
    /\ pc = "search_vec"
    /\ calls' = Append(calls, "search_vec")
    /\ \/ /\ Raise("search_vec")
          /\ failed' = failed \cup {"vec"}
          /\ UNCHANGED vec_rows
       \/ /\ \E rows \in RowLists("vec", Budget) : vec_rows' = rows
          /\ pc' = "search_ft"
          /\ UNCHANGED <<conn, tx, ret, exc, failed>>
    /\ UNCHANGED <<args, det, emb_len, ft_rows, trgm_rows, kw_rows, cascaded, fusionLocals>>

\* Lines 70-72: not guarded, a failure propagates.
SearchFt ==
    /\ pc = "search_ft"
    /\ calls' = Append(calls, "search_ft")
    /\ \/ /\ Raise("search_ft")
          /\ failed' = failed \cup {"ft"}
          /\ UNCHANGED ft_rows
       \/ /\ \E rows \in RowLists("ft", Budget) : ft_rows' = rows
          /\ pc' = "search_trgm"
          /\ UNCHANGED <<conn, tx, ret, exc, failed>>
    /\ UNCHANGED <<args, det, emb_len, vec_rows, trgm_rows, kw_rows, cascaded, fusionLocals>>

\* Mutant of SearchTrgm: the trigram query is not guarded.
SearchTrgmUnguarded ==
    /\ pc = "search_trgm"
    /\ calls' = Append(calls, "search_trgm")
    /\ \/ /\ Raise("search_trgm")
          /\ failed' = failed \cup {"trgm"}
          /\ UNCHANGED trgm_rows
       \/ /\ \E rows \in RowLists("trgm", Budget) : trgm_rows' = rows
          /\ pc' = "search_kw"
          /\ UNCHANGED <<conn, tx, ret, exc, failed>>
    /\ UNCHANGED <<args, det, emb_len, vec_rows, ft_rows, kw_rows, cascaded, fusionLocals>>

\* Lines 75-87: try/except around the trigram query.  A failure raised by
\* the server aborts the transaction, one raised by the driver before the
\* statement is sent does not.
SearchTrgm ==
    /\ pc = "search_trgm"
    /\ calls' = Append(calls, "search_trgm")
    /\ \/ /\ trgm_rows' = <<>>
          /\ failed' = failed \cup {"trgm"}
          /\ tx' \in {"active", "aborted"}
       \/ /\ \E rows \in RowLists("trgm", Budget) : trgm_rows' = rows
          /\ UNCHANGED <<tx, failed>>
    /\ pc' = "search_kw"
    /\ UNCHANGED <<args, conn, det, emb_len, vec_rows, ft_rows, kw_rows, cascaded,
                   fusionLocals, ret, exc>>

\* Lines 108-121: the unaccent keyword query.  On an aborted transaction the
\* server refuses every statement (InFailedSqlTransaction).
SearchKwUnaccent ==
    /\ pc = "search_kw"
    /\ calls' = Append(calls, "search_kw_unaccent")
    /\ \/ /\ tx = "aborted"
          /\ pc' = "search_kw_plain"
          /\ cascaded' = cascaded \cup {"search_kw_unaccent"}
          /\ UNCHANGED <<tx, kw_rows>>
       \/ /\ tx = "active"
          /\ pc' = "search_kw_plain"
          /\ tx' \in {"active", "aborted"}
          /\ UNCHANGED <<cascaded, kw_rows>>
       \/ /\ tx = "active"
          /\ \E rows \in RowLists("kw", Budget) : kw_rows' = rows
          /\ pc' = "fuse"
          /\ tx' = "none"
          /\ UNCHANGED cascaded
    /\ UNCHANGED <<args, conn, det, emb_len, vec_rows, ft_rows, trgm_rows, failed,
                   fusionLocals, ret, exc>>

\* Mutant of SearchKwPlain: no outer except around the fallback.
SearchKwPlainUnguarded ==
    /\ pc = "search_kw_plain"
    /\ calls' = Append(calls, "search_kw_plain")
    /\ \/ /\ Raise("search_kw")
          /\ failed' = failed \cup {"kw"}
          /\ UNCHANGED kw_rows
       \/ /\ tx = "active"
          /\ \E rows \in RowLists("kw", Budget) : kw_rows' = rows
          /\ pc' = "fuse"
          /\ tx' = "none"
          /\ UNCHANGED <<conn, ret, exc, failed>>
    /\ UNCHANGED <<args, det, emb_len, vec_rows, ft_rows, trgm_rows, cascaded, fusionLocals>>

\* Lines 122-137: the plain ILIKE fallback and the outer except.
SearchKwPlain ==
    /\ pc = "search_kw_plain"
    /\ calls' = Append(calls, "search_kw_plain")
    /\ \/ /\ tx = "aborted"
          /\ kw_rows' = <<>>
          /\ failed' = failed \cup {"kw"}
          /\ cascaded' = cascaded \cup {"search_kw_plain"}
       \/ /\ tx = "active"
          /\ kw_rows' = <<>>
          /\ failed' = failed \cup {"kw"}
          /\ UNCHANGED cascaded
       \/ /\ tx = "active"
          /\ \E rows \in RowLists("kw", Budget) : kw_rows' = rows
          /\ UNCHANGED <<failed, cascaded>>
    /\ pc' = "fuse"
    /\ tx' = "none"
    /\ UNCHANGED <<args, conn, det, emb_len, vec_rows, ft_rows, trgm_rows, fusionLocals, ret, exc>>

\* Lines 139-195: aggregation, normalisation, rebalancing, ranking, return.
Fuse ==
    /\ pc = "fuse"
    /\ items' = Aggregate(vec_rows, ft_rows, trgm_rows, kw_rows)
    /\ mx' = Maxes(items')
    /\ rw' = Rebalance(args.weights, mx')
    /\ ranked' = Ranked(items', mx', rw', args.require_kw)
    /\ ret' = HybridResult(args, det, rw', ranked')
    /\ pc' = "done"
    /\ UNCHANGED <<args, conn, tx, calls, det, emb_len, channelRows, failed, cascaded, exc>>

Next ==
    \/ Call
    \/ FindByCode
    \/ EmbedQuery
    \/ SearchVec
    \/ SearchFt
    \/ SearchTrgm
    \/ SearchKwUnaccent
    \/ SearchKwPlain
    \/ Fuse

Spec == Init /\ [][Next]_vars

\* ----------------------------------------------------------------- claims
Returned == pc = "done"

\* The fusion step has run and returned.
Fused == pc = "done" /\ ret.method # "deterministic"

Indices(seq) == 1..Len(seq)

\* C1: when the deterministic lookup returns exactly one row, the call
\* returns method deterministic, confidence 1.0 and exactly that row with
\* score 1.0, and the lookup is the only collaborator call made (no
\* embedding call, no channel query).
C1_DeterministicShortCircuit ==
    Len(det) = 1 =>
        /\ pc = "done"
        /\ ret.method = "deterministic"
        /\ ret.confidence = Scale4
        /\ Len(ret.results) = 1
        /\ ret.results[1].sku = det[1].sku
        /\ ret.results[1].codigo_barras = det[1].codigo_barras
        /\ ret.results[1].name = det[1].name
        /\ ret.results[1].reason = det[1].reason
        /\ ret.results[1].score = Scale4
        /\ calls = <<"find_by_code">>

C1_Witness == pc = "done" /\ Len(det) = 1 /\ ret.method = "deterministic"

\* C2 as claimed: every returned method tag is deterministic or hybrid, and
\* a lookup with two or more rows returns the tag hybrid.
C2_Original ==
    Returned =>
        /\ ret.method \in {"deterministic", "hybrid"}
        /\ (Len(det) >= 2 => ret.method = "hybrid")

\* C2 amended: the tag is deterministic, hybrid or
\* hybrid_with_deterministic_candidates; a lookup with two or more rows runs
\* the hybrid path and returns hybrid_with_deterministic_candidates, and
\* only a lookup with no rows returns hybrid.
C2_MethodTags ==
    Returned =>
        /\ ret.method \in {"deterministic", "hybrid", "hybrid_with_deterministic_candidates"}
        /\ (Len(det) >= 2 =>
              /\ ret.method = "hybrid_with_deterministic_candidates"
              /\ \E i \in Indices(calls) : calls[i] = "embed")
        /\ (ret.method = "hybrid" <=> det = <<>>)
        /\ (ret.method = "deterministic" <=> Len(det) = 1)

C2_Witness == Returned /\ Len(det) >= 2 /\ ret.method = "hybrid_with_deterministic_candidates"

ChannelSet == {"vec", "ft", "trgm", "kw"}

\* Sum of the numerators of the rebalanced weights; the weights sum to 1.0
\* exactly when it equals rw.den and to 0 exactly when it is 0.
WeightSum == rw.num["vec"] + rw.num["ft"] + rw.num["trgm"] + rw.num["kw"]

\* Sum of the caller-supplied weights of the channels with a positive max.
SuppliedActive ==
    LET a(c) == IF mx[c] > 0 THEN args.weights[c] ELSE 0
    IN  a("vec") + a("ft") + a("trgm") + a("kw")

\* C3 as claimed: after rebalancing a channel with max 0 has weight 0, the
\* weights sum to 1.0 whenever some channel is non-empty, and to 0 when all
\* are empty, for all caller-supplied weights.
C3_Original ==
    Fused =>
        /\ \A c \in ChannelSet : mx[c] = 0 => rw.num[c] = 0
        /\ ((\E c \in ChannelSet : mx[c] > 0) => WeightSum = rw.den)
        /\ ((\A c \in ChannelSet : mx[c] = 0) => WeightSum = 0)

\* C3 amended: a channel with max 0 has weight 0; the weights sum to 1.0
\* whenever the caller-supplied weights of the channels with a positive max
\* sum to more than 0, otherwise those weights are left as supplied; the
\* weights sum to 0 when all four channels are empty.
C3_Rebalanced ==
    Fused =>
        /\ \A c \in ChannelSet : mx[c] = 0 => rw.num[c] = 0
        /\ (SuppliedActive > 0 => WeightSum = rw.den /\ rw.den = SuppliedActive)
        /\ (SuppliedActive <= 0 =>
              /\ rw.den = WeightUnit
              /\ \A c \in ChannelSet : mx[c] > 0 => rw.num[c] = args.weights[c])
        /\ ((\A c \in ChannelSet : mx[c] = 0) => WeightSum = 0)

C3_Witness ==
    /\ Fused
    /\ \E c \in ChannelSet : mx[c] = 0 /\ args.weights[c] # 0
    /\ \E c \in ChannelSet : mx[c] > 0
    /\ WeightSum = rw.den
    /\ rw.den # WeightUnit

\* The aggregated candidate of an entry.
ItemOf(s) == items[CHOOSE i \in Indices(items) : items[i].sku = s]

\* Raw scores a channel's rows give to a SKU.
RawOf(rows, key, s) == { Val(key, rows[i]) : i \in { j \in Indices(rows) : rows[j].sku = s } }

RowsOf(c) ==
    CASE c = "vec" -> vec_rows
      [] c = "ft" -> ft_rows
      [] c = "trgm" -> trgm_rows
      [] c = "kw" -> kw_rows

\* C4: every per-channel normalized score of every candidate lies in
\* [0,1]; it is raw/channel-max (rounded to 4 decimals) when the channel
\* max is positive and 0 otherwise, where the channel max is the largest
\* raw score aggregated for that channel, so the best candidate of a
\* channel with a positive max has 1.0.
C4_NormalizedRange ==
    Fused =>
        \A c \in ChannelSet :
            /\ \A i \in Indices(ranked) :
                  LET e == ranked[i]
                      raw == Get(ItemOf(e.sku).scores, c)
                  IN  /\ e[c] >= 0 /\ e[c] <= Scale4
                      /\ raw \in RawOf(RowsOf(c), c, e.sku) \cup {0}
                      /\ raw <= mx[c]
                      /\ (mx[c] > 0 => e[c] = Round(raw, mx[c], Scale4))
                      /\ (mx[c] = 0 => e[c] = 0)
            /\ (mx[c] > 0 /\ ~args.require_kw => \E i \in Indices(ranked) : ranked[i][c] = Scale4)

\* A distance above 1 is clamped to similarity 0 next to a candidate that
\* holds the positive channel max.
C4_Witness ==
    /\ Fused
    /\ mx["vec"] > 0
    /\ \E i \in Indices(vec_rows) : vec_rows[i].raw > DistUnit
    /\ \E i, j \in Indices(ranked) : ranked[i].vec = Scale4 /\ ranked[j].vec = 0

\* C5: with require_kw_when_available set and some candidate with a
\* keyword score above 0, every returned entry has kw > 0; the candidates
\* without a keyword score are removed before the truncation to k, so a
\* keyword-matching candidate is missing from the results only when k
\* keyword-matching candidates ranked at or above it fill them.
C5_KeywordGate ==
    (Fused /\ args.require_kw /\ \E i \in Indices(items) : Get(items[i].scores, "kw") > 0) =>
        /\ \A i \in Indices(ret.results) : ret.results[i].kw > 0
        /\ { ranked[i].sku : i \in Indices(ranked) }
             = { items[i].sku : i \in { j \in Indices(items) : Get(items[j].scores, "kw") > 0 } }
        /\ ret.results = SubSeq(ranked, 1, Len(ret.results))
        /\ (Len(ret.results) < Len(ranked) => Len(ret.results) = args.k)

\* A candidate without keyword score outscores the keyword match and k = 1.
C5_Witness ==
    /\ Fused /\ args.require_kw /\ args.k = 1
    /\ Len(ret.results) = 1
    /\ ret.results[1].kw > 0
    /\ \E i \in Indices(items) :
          /\ Get(items[i].scores, "kw") = 0
          /\ FusedScore(items[i], mx, rw) > ret.results[1].score

\* C6: the entries of a hybrid result are ordered by score descending.
C6_SortedDescending ==
    Fused =>
        \A i, j \in Indices(ret.results) :
            i < j => ret.results[i].score >= ret.results[j].score

\* Two entries of different score whose candidates were aggregated in the
\* opposite order.
C6_Witness ==
    /\ Fused
    /\ Len(ret.results) = 2
    /\ ret.results[1].score > ret.results[2].score
    /\ items[1].sku = ret.results[2].sku

\* C7 as claimed: two entries of a hybrid result with equal fused score
\* appear in SKU-ascending order, whatever order the backends returned
\* their rows in.
C7_TiesBySkuAscending ==
    Fused =>
        \A i, j \in Indices(ret.results) :
            (i < j /\ ret.results[i].score = ret.results[j].score)
                => ret.results[i].sku < ret.results[j].sku

\* C8 as claimed: for every k the returned list has at most k entries.
C8_Original == Returned => Len(ret.results) <= args.k

\* C8 amended: for every k >= 1 the returned list has at most k entries;
\* for k = 0 this holds on the hybrid path only, the deterministic early
\* return always holds one entry.
C8_AtMostK ==
    Returned =>
        /\ ((args.k >= 1 \/ ret.method # "deterministic") => Len(ret.results) <= args.k)
        /\ (ret.method = "deterministic" => Len(ret.results) = 1)

\* The ranking held more than k >= 1 entries and was cut to k.
C8_Witness ==
    /\ Fused
    /\ args.k >= 1
    /\ Len(ranked) > args.k
    /\ Len(ret.results) = args.k

\* C9 as claimed: for every k, the confidence of a hybrid result is the
\* score of the first returned entry, and 0 when the returned list is empty.
C9_Original ==
    Fused =>
        ret.confidence = IF ret.results # <<>> THEN ret.results[1].score ELSE 0

\* C9 amended: the confidence of a hybrid result is the score of the first
\* entry of the ranking before its truncation to k, and 0 when there is no
\* candidate; for k >= 1 it is the score of the first returned entry.
C9_Confidence ==
    Fused =>
        /\ ret.confidence = IF ranked # <<>> THEN ranked[1].score ELSE 0
        /\ (ranked = <<>> <=> items = <<>>)
        /\ (args.k >= 1 =>
              ret.confidence = IF ret.results # <<>> THEN ret.results[1].score ELSE 0)

C9_Witness ==
    /\ Fused
    /\ args.k >= 1
    /\ Len(ret.results) = 2
    /\ ret.results[1].score > ret.results[2].score
    /\ ret.confidence = ret.results[1].score

\* Channels whose rows reached the aggregation.
SkusOf(rows) == { rows[i].sku : i \in Indices(rows) }

\* C10 as claimed: a failure of any one channel query (vector, full-text,
\* trigram, keyword) does not abort the call.
C10_Original == failed # {} => pc # "raised"

\* C10 amended: a failure of the trigram or keyword query does not abort
\* the call: the failing channel contributes no rows and a hybrid result
\* built from the rows of the other channels is returned; a failure of the
\* vector or full-text query leaves search_products as an exception.
C10_ChannelFailure ==
    /\ (pc = "raised" => exc \notin {"search_trgm", "search_kw"})
    /\ \A c \in failed \cap {"trgm", "kw"} : RowsOf(c) = <<>>
    /\ (failed \cap {"vec", "ft"} # {} => pc = "raised" /\ ret = NoRet)
    /\ ((Returned /\ failed # {}) =>
          /\ failed \subseteq {"trgm", "kw"}
          /\ ret.method \in {"hybrid", "hybrid_with_deterministic_candidates"}
          /\ \A c \in failed : mx[c] = 0 /\ ret.weights[c] = 0
          /\ { items[i].sku : i \in Indices(items) }
               = UNION { SkusOf(RowsOf(c)) : c \in ChannelSet \ failed }
          /\ \A i \in Indices(ret.results) : \A c \in failed : ret.results[i][c] = 0)

C10_Witness ==
    /\ Returned
    /\ "trgm" \in failed
    /\ ret.results # <<>>
    /\ ret.confidence > 0

Called(name) == \E i \in Indices(calls) : calls[i] = name

\* C11: a failure of the trigram query, of the unaccent keyword query or of
\* the plain keyword fallback never leaves search_products as an exception;
\* a failed trigram channel has no rows, a failed keyword channel (its
\* fallback failed too) has no rows, and the unaccent query is always
\* issued, immediately before any plain fallback.
C11_OptionalChannelsGuarded ==
    /\ (pc = "raised" =>
          calls[Len(calls)] \notin {"search_trgm", "search_kw_unaccent", "search_kw_plain"})
    /\ ("trgm" \in failed => trgm_rows = <<>>)
    /\ ("kw" \in failed => kw_rows = <<>> /\ Called("search_kw_plain"))
    /\ \A i \in Indices(calls) :
          calls[i] = "search_kw_plain" => (i > 1 /\ calls[i - 1] = "search_kw_unaccent")
    /\ (pc \in {"search_kw_plain", "fuse"} \/ Fused => Called("search_kw_unaccent"))

C11_Witness ==
    /\ Returned
    /\ failed = {"trgm", "kw"}
    /\ Called("search_kw_plain")
    /\ ret.results # <<>>

\* C12: when the lookup did not return exactly one row and the embedding
\* collaborator returns a vector of another length than EMB_DIM, the call
\* raises right after the embedding call: no channel query is issued and
\* nothing is returned.
C12_DimMismatchFatal ==
    (emb_len # 0 /\ emb_len # EMB_DIM) =>
        /\ pc = "raised"
        /\ exc = "embedding_dim"
        /\ ret = NoRet
        /\ Len(det) # 1
        /\ calls = <<"find_by_code", "embed">>
        /\ vec_rows = <<>> /\ ft_rows = <<>> /\ trgm_rows = <<>> /\ kw_rows = <<>>

C12_Witness == pc = "raised" /\ exc = "embedding_dim" /\ emb_len = EMB_DIM - 1 /\ Len(det) = 2

\* C13: when the lookup returns no row and all four channels return no
\* rows, the call returns (it does not raise) method hybrid, confidence 0,
\* an empty results list and four weights equal to 0.
C13_NoCandidates ==
    (det = <<>> /\ vec_rows = <<>> /\ ft_rows = <<>> /\ trgm_rows = <<>> /\ kw_rows = <<>>) =>
        /\ (pc = "raised" => ~Called("search_kw_unaccent"))
        /\ (Returned =>
              /\ ret.method = "hybrid"
              /\ ret.confidence = 0
              /\ ret.results = <<>>
              /\ \A c \in ChannelSet : ret.weights[c] = 0)

C13_Witness ==
    /\ Returned
    /\ det = <<>>
    /\ Called("search_kw_unaccent")
    /\ failed = {}
    /\ items = <<>>
    /\ ret.method = "hybrid"

\* C14: whenever some channel returned a row and k >= 1, the returned list
\* is not empty, for either value of require_kw_when_available: the keyword
\* gate never empties a ranking that held a candidate.
C14_NeverEmptied ==
    (Fused /\ Len(vec_rows) + Len(ft_rows) + Len(trgm_rows) + Len(kw_rows) > 0) =>
        /\ ranked # <<>>
        /\ (args.k >= 1 => ret.results # <<>>)

\* The flag is set and no candidate has a keyword score.
C14_Witness ==
    /\ Fused
    /\ args.require_kw
    /\ args.k >= 1
    /\ items # <<>>
    /\ \A i \in Indices(items) : Get(items[i].scores, "kw") = 0
    /\ ret.results # <<>>

Abs(x) == IF x < 0 THEN -x ELSE x

\* The exact weighted sum of a candidate, as the fraction SumNum / SumDen:
\* the sum over the channels of (rw.num[c] / rw.den) * (raw / mx[c]), a
\* channel with max 0 contributing 0.
PosMax(c) == IF mx[c] > 0 THEN mx[c] ELSE 1

SumDen == rw.den * PosMax("vec") * PosMax("ft") * PosMax("trgm") * PosMax("kw")

SumNum(s) ==
    LET term(c) == IF mx[c] > 0
                   THEN rw.num[c] * Get(ItemOf(s).scores, c) * (SumDen \div (rw.den * mx[c]))
                   ELSE 0
    IN  term("vec") + term("ft") + term("trgm") + term("kw")

\* Channel c is the only one with a positive max and its supplied weight
\* is positive.
OnlyChannel(c) ==
    /\ mx[c] > 0
    /\ args.weights[c] > 0
    /\ \A o \in ChannelSet \ {c} : mx[o] = 0

\* C16: each candidate's fused score is the sum over the four channels of
\* rebalanced weight times normalized score (to the 4 decimals it is
\* rounded to); when exactly one channel has a positive max and its
\* supplied weight is positive, that channel's weight is 1.0, every fused
\* score equals the candidate's normalized score on that channel and the
\* best candidate's score is 1.0.
C16_FusedScore ==
    Fused =>
        /\ \A i \in Indices(ranked) :
              2 * Abs(ranked[i].score * SumDen - Scale4 * SumNum(ranked[i].sku)) <= SumDen
        /\ \A c \in ChannelSet :
              OnlyChannel(c) =>
                  /\ rw.num[c] = rw.den
                  /\ ret.weights[c] = Scale2
                  /\ \A o \in ChannelSet \ {c} : rw.num[o] = 0 /\ ret.weights[o] = 0
                  /\ \A i \in Indices(ranked) : ranked[i].score = ranked[i][c]
                  /\ ranked[1].score = Scale4

\* Distances 0.1 and 0.4 from the vector channel alone: scores 1.0 and 0.6667.
C16_Witness ==
    /\ Fused
    /\ OnlyChannel("vec")
    /\ Len(ret.results) = 2
    /\ ret.results[1].score = Scale4
    /\ ret.results[2].score = 6667

ChannelQueries == {"search_vec", "search_ft", "search_trgm", "search_kw_unaccent", "search_kw_plain"}

\* C17: the deterministic lookup is the first call and completes before the
\* embedding call and every channel query; the hybrid path (embedding and
\* channel queries) runs only if the lookup did not return exactly one
\* row; fusion runs only after the vector, full-text, trigram and keyword
\* queries have each returned rows or failed, and nothing is aggregated
\* before.
C17_CallOrder ==
    /\ (calls # <<>> => calls[1] = "find_by_code")
    /\ \A i \in Indices(calls) :
          /\ (calls[i] = "find_by_code" => i = 1)
          /\ (calls[i] = "embed" => i = 2)
          /\ (calls[i] \in ChannelQueries => i > 2)
    /\ (Len(calls) > 1 => Len(det) # 1)
    /\ (pc = "fuse" \/ Fused =>
          /\ SubSeq(calls, 1, 6) = <<"find_by_code", "embed", "search_vec", "search_ft",
                                     "search_trgm", "search_kw_unaccent">>
          /\ \A c \in ChannelSet : c \in failed => RowsOf(c) = <<>>)
    /\ (~Fused => items = <<>> /\ ranked = <<>>)

C17_Witness ==
    /\ Fused
    /\ Len(calls) = 7
    /\ failed = {}
    /\ items # <<>>

C19_ConnectionReleased ==
    (\/ pc = "done"
     \/ pc = "raised" /\ exc \in {"embedding_api", "embedding_dim", "search_vec", "search_ft"})
        => conn = "closed"

\* The first row of a list that carries the SKU.
FirstRow(rows, s) == rows[CHOOSE i \in Indices(rows) :
                            rows[i].sku = s /\ \A j \in Indices(rows) : rows[j].sku = s => i <= j]

\* The row that introduces the SKU, channels taken in the order vec, ft,
\* trgm, kw.
Introducer(s) ==
    IF s \in SkusOf(vec_rows) THEN FirstRow(vec_rows, s)
    ELSE IF s \in SkusOf(ft_rows) THEN FirstRow(ft_rows, s)
    ELSE IF s \in SkusOf(trgm_rows) THEN FirstRow(trgm_rows, s)
    ELSE FirstRow(kw_rows, s)

\* C20 as claimed: when a channel returns several rows for one SKU the
\* candidate's raw score for that channel is that of the first such row,
\* and its name and barcode are those of the first row that introduced the
\* SKU, channels taken in the order vec, ft, trgm, kw.
C20_FirstOccurrenceKept ==
    Fused =>
        \A i \in Indices(items) :
            /\ \A c \in ChannelSet :
                  items[i].sku \in SkusOf(RowsOf(c)) =>
                      Get(items[i].scores, c) = Val(c, FirstRow(RowsOf(c), items[i].sku))
            /\ items[i].name = Introducer(items[i].sku).name
            /\ items[i].codigo_barras = Introducer(items[i].sku).codigo_barras

NonNegativeInputs ==
    /\ \A c \in ChannelSet : args.weights[c] >= 0
    /\ \A c \in ChannelSet : \A i \in Indices(RowsOf(c)) : RowsOf(c)[i].raw >= 0

\* C21: when the supplied weights alpha, beta, gamma, delta and every raw
\* channel score are non-negative, every fused score of the returned
\* entries and the confidence lie between 0 and 1 (0 and Scale4 in units of
\* 1/10000), and no SKU appears in two returned entries.
C21_ScoresInUnitRange ==
    (Fused /\ NonNegativeInputs) =>
        /\ \A i \in Indices(ret.results) :
              ret.results[i].score >= 0 /\ ret.results[i].score <= Scale4
        /\ ret.confidence >= 0 /\ ret.confidence <= Scale4
        /\ \A i, j \in Indices(ret.results) :
              ret.results[i].sku = ret.results[j].sku => i = j

\* One SKU returned by two channels, or twice by one, is one entry, and its
\* score reaches the upper end of the range.
C21_Witness ==
    /\ Fused
    /\ NonNegativeInputs
    /\ \E s \in SKUs :
          Cardinality({ <<c, i>> \in ChannelSet \X (1..MaxRows) :
                           i <= Len(RowsOf(c)) /\ RowsOf(c)[i].sku = s }) >= 2
    /\ Len(ret.results) = 1
    /\ ret.results[1].score = Scale4
    /\ ret.confidence = Scale4

====
